---- MODULE Spec2Model ----
(***************************************************************************)
(* zerohalt: a PID-1 supervisor.  The model covers the lifecycle state     *)
(* (pkg/health State), the health endpoint handler, the signal router,     *)
(* the supervisor (process.Manager) and the shutdown coordinator.          *)
(*                                                                         *)
(* Three specifications are defined:                                       *)
(*   Spec        Manager.Run with the production wiring of cmd/zerohalt    *)
(*   SpecDirect  the components driven directly through their exported     *)
(*               methods (SetState, healthHandler, InitiateShutdown), the  *)
(*               way the package tests drive them                          *)
(*   FairSpec    Spec with the fairness of the Go scheduler: a goroutine   *)
(*               that can take a step eventually takes it                  *)
(*                                                                         *)
(* Time is discrete.  Each timer has its own tick action; a step of the    *)
(* supervisor takes no time, so a timer does not advance while the task    *)
(* racing with it has a step to take.                                      *)
(***************************************************************************)
EXTENDS Integers, Sequences, FiniteSets, TLC

\* ---------------------------------------------------------------- bounds
\* total number of signals the environment delivers in one run
MaxSignals == 2
\* total number of health requests served in one run
MaxRequests == 2
\* number of health requests that can be in flight at once
NumHandlers == 1
\* config.Shutdown.ShutdownTimeout, in ticks (validated positive)
ShutdownTimeout == 1
\* config.App.StartupTimeout, in probe intervals
StartupTimeout == 1
\* largest Monitor.interval, in ticks of 50ms
MaxInterval == 2
\* largest timeout given to WaitForZeroConnections, in ticks of 50ms
MaxDrainTimeout == 3
\* largest Monitor.steadyStateWait, in ticks of 50ms
MaxSteadyWait == 2
\* number of times a test calls InitiateShutdown on one coordinator
MaxInvocations == 2
\* largest number of rows in the two kernel tables together
MaxConns == 2

\* ------------------------------------------------- health.HealthState
StateStarting == 0
StateHealthy == 1
StateUnhealthy == 2
StateDraining == 3
StateTerminating == 4
\* a value outside the enumeration, as HealthState(99) in the server tests
StateUnknown == 99

HealthStates == {StateStarting, StateHealthy, StateUnhealthy, StateDraining, StateTerminating}

\* ------------------------------------------------------------- signals
\* the closed vocabulary of ParseSignal
signalMap == {"SIGHUP", "SIGINT", "SIGTERM", "SIGUSR1", "SIGUSR2", "SIGWINCH", "SIGQUIT"}

ParseSignal(name) == IF name \in signalMap THEN name ELSE "nil"

\* the signal configuration of a run: SIGHUP is forwarded, SIGTERM shuts down
PassThroughSignals == <<"SIGHUP">>
ShutdownSignals == <<"SIGTERM">>

Range(seq) == {seq[i] : i \in DOMAIN seq}

\* NewSignalHandler: the two maps, unknown names dropped
passThroughSignals == {ParseSignal(n) : n \in Range(PassThroughSignals)} \ {"nil"}
shutdownSignals == {ParseSignal(n) : n \in Range(ShutdownSignals)} \ {"nil"}

\* SignalHandler.Setup: the signals registered with signal.Notify
allSignals == passThroughSignals \cup shutdownSignals \cup {"SIGCHLD"}

ActionIgnore == 0
ActionPassThrough == 1
ActionShutdown == 2
ActionReapZombies == 3

\* NewSignalHandler for any SignalConfig: the two maps, unknown names dropped
NewSignalHandler(passNames, shutNames, process) ==
  [passThroughSignals |-> {ParseSignal(n) : n \in Range(passNames)} \ {"nil"},
   shutdownSignals |-> {ParseSignal(n) : n \in Range(shutNames)} \ {"nil"},
   appProcess |-> process]

\* no SignalHandler has been constructed
NoSignalHandler ==
  [passThroughSignals |-> {}, shutdownSignals |-> {}, appProcess |-> "nil"]

\* the signal lists a SignalConfig is given in the tests of the handler
SignalLists ==
  {<<>>, <<"SIGHUP">>, <<"SIGTERM">>, <<"SIGHUP", "SIGTERM">>, <<"SIGBOGUS">>}

\* a configuration that lets a signal be in both lists
Validate_NoConflictCheck(c) ==
  IF c.loadErr THEN "invalid configuration"
  ELSE IF \E n \in Range(c.passThrough) : n \notin signalMap
    THEN "invalid pass-through signal"
  ELSE IF \E n \in Range(c.shutdown) : n \notin {"SIGTERM", "SIGINT"}
    THEN "invalid shutdown signal"
  ELSE "nil"

\* Config.validateSignalConflicts: a pass-through name that is also a
\* shutdown name
validateSignalConflicts(c) ==
  IF \E i \in DOMAIN c.passThrough : c.passThrough[i] \in Range(c.shutdown)
    THEN "signal cannot be both pass-through and shutdown signal"
    ELSE "nil"

\* Config.Validate: the checks before the signal lists (ports, mode,
\* timeouts) fail or not (loadErr), then the names of both lists, then the
\* conflict check
Validate(c) ==
  IF c.loadErr THEN "invalid configuration"
  ELSE IF \E n \in Range(c.passThrough) : n \notin signalMap
    THEN "invalid pass-through signal"
  ELSE IF \E n \in Range(c.shutdown) : n \notin {"SIGTERM", "SIGINT"}
    THEN "invalid shutdown signal"
  ELSE validateSignalConflicts(c)

\* SignalHandler.Setup of a handler: the signals registered with
\* signal.Notify
Registered(h) == h.passThroughSignals \cup h.shutdownSignals \cup {"SIGCHLD"}

\* the names a signal can have in the counters
SigNames == signalMap \cup {"SIGCHLD"}

\* ----------------------------------------------------------- variables
VARIABLES
  config,          \* [hasChecker, forceKill, signalToApp, commandEmpty, loadErr, passThrough, shutdown]
  current,         \* State.current
  stateGauge,      \* metrics.State
  lastSet,         \* return path of the latest State.Set: none/accepted/blocked
  listening,       \* the listener of Server.Start: off/binding/yes/failed
  hPc,             \* per in-flight health request: idle/sampled/done
  hSample,         \* the state the request sampled
  hAfterDrain,     \* the request started after the coordinator published
  hResp,           \* the response written
  healthRequests,  \* metrics.HealthRequests
  pbPc,            \* waitForAppHealthy: idle/check/sleep/set/done
  pbElapsed,       \* probe intervals since WaitForHealthy was entered
  pbHealthy,       \* the result of WaitForAppHealthy
  runPc,           \* Manager.Run: init/started/spawned/waiting/returned
  runResult,       \* the error Manager.Run returns
  exitCode,        \* what main.run returns to osExit, -1 while it runs
  shutdownChan,    \* the channel handleSignals answers on
  sigChan,         \* the capacity-1 channel of Setup
  delivered,       \* signals raised by the environment, per name
  received,        \* metrics.SignalsReceived, per name
  forwarded,       \* metrics.SignalsForwarded, per name
  sigPc,           \* handleSignals: idle/recv/coord/returned
  childState,      \* none/running/zombie/reaped
  reapedBy,        \* who consumed the child's exit status
  appProcess,      \* Coordinator.appProcess: nil/child
  coPc,            \* InitiateShutdown: idle/publish/drain/signal/select/done
  coSig,           \* the triggering signal
  coInvocations,   \* number of InitiateShutdown calls
  drainResult,     \* what WaitForZeroConnections returned
  coSignal,        \* the signal InitiateShutdown sent to the child
  waitPc,          \* the goroutine around appProcess.Wait: none/waiting/sent
  done,            \* the channel of that goroutine
  shutElapsed,     \* ticks since time.After(ShutdownTimeout) was armed
  killSent,        \* SIGKILL was sent
  coResult,        \* the error InitiateShutdown returns
  hProbe,          \* what the request's call of the probe gave: none/ok/fail
  pbChecks,        \* calls of AppHealthChecker.Check made by WaitForHealthy
  pbOks,           \* those of them that succeeded
  sigHandler,      \* SignalHandler: [passThroughSignals, shutdownSignals]
  handleCalls,     \* calls of SignalHandler.Handle, per name
  forwardsOk,      \* calls of appProcess.Signal that returned nil, per name
  monitor,         \* Monitor: [ports, interval, steadyStateWait], in ticks of 50ms
  procNet,         \* /proc/net/tcp and /proc/net/tcp6: [readable, rows] each
  countResult,     \* what the latest CountActiveConnections returned
  wzTimeout,       \* the argument of the outermost WaitForZeroConnections
  wzPc,            \* the drain wait: idle/poll/steady/done
  wzNow,           \* the clock of the drain wait
  wzDeadline,      \* deadline of the running activation
  wzDeadline0,     \* deadline computed by the outermost activation
  wzSteadyDeadline,\* steadyStateDeadline of the running steady-state wait
  wzNextTick,      \* when the ticker of the running loop fires next
  wzDepth,         \* activations of WaitForZeroConnections so far
  wzStart,         \* start of every activation that has not returned
  drainDuration,   \* metrics.DrainDuration, in ticks
  wzSamples,       \* the CountActiveConnections results, with their times
  wzResult,        \* what the outermost WaitForZeroConnections returned
  drainPhaseActive,\* metrics.DrainPhaseActive
  activeConnections \* metrics.ActiveConnections

healthVars == <<current, stateGauge, lastSet>>
handlerVars == <<hPc, hSample, hAfterDrain, hResp, healthRequests, hProbe>>
probeVars == <<pbPc, pbElapsed, pbHealthy, pbChecks, pbOks>>
runVars == <<runPc, runResult, exitCode, shutdownChan, listening>>
signalVars == <<sigChan, delivered, received, forwarded, sigPc, sigHandler,
               handleCalls, forwardsOk>>
childVars == <<childState, reapedBy>>
coordVars == <<appProcess, coPc, coSig, coInvocations, drainResult, coSignal,
               waitPc, done, shutElapsed, killSent, coResult>>

monVars == <<monitor, procNet, countResult, wzTimeout, wzPc, wzNow, wzDeadline, wzDeadline0,
             wzSteadyDeadline, wzNextTick, wzDepth, wzStart, drainDuration,
             wzSamples, wzResult, drainPhaseActive, activeConnections>>

vars == <<config, healthVars, handlerVars, probeVars, runVars, signalVars,
          childVars, coordVars, monVars>>

Handlers == 1..NumHandlers

\* --------------------------------------------------------- health.State
\* The older setter kept in the tree: an unconditional assignment.
StateSet_Unguarded(cur, target) == [current |-> target, accepted |-> TRUE]

\* State.Set, under the writer lock: the new value and whether it was taken
StateSet(cur, target) ==
  IF cur = StateTerminating
    THEN [current |-> cur, accepted |-> FALSE]
  ELSE IF cur = StateDraining /\ ~(cur = StateDraining /\ target = StateTerminating)
    THEN [current |-> cur, accepted |-> FALSE]
  ELSE [current |-> target, accepted |-> TRUE]

\* a Set that publishes the requested value whether it was taken or not
SetState_GaugeAlways(target) ==
  LET r == StateSet(current, target) IN
  /\ current' = r.current
  /\ stateGauge' = target
  /\ lastSet' = IF r.accepted THEN "accepted" ELSE "blocked"

\* Server.SetState: one call of State.Set on the shared state
SetState(target) ==
  LET r == StateSet(current, target) IN
  /\ current' = r.current
  /\ stateGauge' = IF r.accepted THEN target ELSE stateGauge
  /\ lastSet' = IF r.accepted THEN "accepted" ELSE "blocked"

\* a response of the health endpoint
Resp(code, body) == [code |-> code, body |-> body]

NoResp == Resp(0, "")

\* a handler that asks the probe only to recover from Unhealthy
healthHandler_ProbeOnlyWhenUnhealthy(state, hasChecker, probeOk) ==
  IF state = StateHealthy THEN Resp(200, "healthy")
  ELSE IF state = StateStarting THEN Resp(503, "starting")
  ELSE IF state = StateUnhealthy THEN
    IF hasChecker /\ probeOk THEN Resp(200, "healthy") ELSE Resp(503, "unhealthy")
  ELSE IF state = StateDraining THEN Resp(503, "draining")
  ELSE IF state = StateTerminating THEN Resp(503, "terminating")
  ELSE Resp(500, "unknown")

\* a handler whose switch has no case for Unhealthy
healthHandler_NoUnhealthyCase(state, hasChecker, probeOk) ==
  IF state = StateHealthy THEN
    IF hasChecker /\ ~probeOk THEN Resp(503, "unhealthy") ELSE Resp(200, "healthy")
  ELSE IF state = StateStarting THEN Resp(503, "starting")
  ELSE IF state = StateDraining THEN Resp(503, "draining")
  ELSE IF state = StateTerminating THEN Resp(503, "terminating")
  ELSE Resp(500, "unknown")

\* healthHandler: the response for a sampled state and a probe outcome
\* (probeOk is read only when a probe is configured)
healthHandler(state, hasChecker, probeOk) ==
  IF state = StateHealthy THEN
    IF hasChecker /\ ~probeOk THEN Resp(503, "unhealthy") ELSE Resp(200, "healthy")
  ELSE IF state = StateStarting THEN Resp(503, "starting")
  ELSE IF state = StateUnhealthy THEN
    IF hasChecker /\ probeOk THEN Resp(200, "healthy") ELSE Resp(503, "unhealthy")
  ELSE IF state = StateDraining THEN Resp(503, "draining")
  ELSE IF state = StateTerminating THEN Resp(503, "terminating")
  ELSE Resp(500, "unknown")

\* handleHealthyState / handleUnhealthyState: the probe is called in these
\* two states, and only when one is configured
ProbeConsulted(state, hasChecker) ==
  hasChecker /\ state \in {StateHealthy, StateUnhealthy}

\* the coordinator has called SetState(Draining)
Published == coPc \notin {"idle", "publish"}

\* healthHandler, first half: state := s.GetState()
HandlerSample(h) ==
  /\ listening = "yes"
  /\ hPc[h] = "idle"
  /\ healthRequests + Cardinality({g \in Handlers : hPc[g] = "sampled"}) < MaxRequests
  /\ hPc' = [hPc EXCEPT ![h] = "sampled"]
  /\ hSample' = [hSample EXCEPT ![h] = current]
  /\ hAfterDrain' = [hAfterDrain EXCEPT ![h] = Published]
  /\ hResp' = [hResp EXCEPT ![h] = NoResp]
  /\ hProbe' = [hProbe EXCEPT ![h] = "none"]
  /\ UNCHANGED <<config, monVars, healthVars, healthRequests, probeVars, runVars,
                 signalVars, childVars, coordVars>>

\* healthHandler, second half: the probe (if any), the recovery
\* SetState(Healthy), the response, and the deferred request counter
HandlerRespond(h) ==
  /\ hPc[h] = "sampled"
  /\ \E probeOk \in (IF ProbeConsulted(hSample[h], config.hasChecker)
                       THEN BOOLEAN ELSE {TRUE}) :
       /\ hResp' = [hResp EXCEPT ![h] = healthHandler(hSample[h], config.hasChecker, probeOk)]
       /\ hProbe' = [hProbe EXCEPT ![h] =
                       IF ~ProbeConsulted(hSample[h], config.hasChecker) THEN "none"
                       ELSE IF probeOk THEN "ok" ELSE "fail"]
       /\ IF hSample[h] = StateUnhealthy /\ config.hasChecker /\ probeOk
            THEN SetState(StateHealthy)
            ELSE UNCHANGED healthVars
  /\ hPc' = [hPc EXCEPT ![h] = "done"]
  /\ healthRequests' = healthRequests + 1
  /\ UNCHANGED <<config, monVars, hSample, hAfterDrain, probeVars, runVars,
                 signalVars, childVars, coordVars>>

\* the connection of a served request goes away; the slot is free again
HandlerFinish(h) ==
  /\ hPc[h] = "done"
  /\ hPc' = [hPc EXCEPT ![h] = "idle"]
  /\ hSample' = [hSample EXCEPT ![h] = StateStarting]
  /\ hAfterDrain' = [hAfterDrain EXCEPT ![h] = FALSE]
  /\ hResp' = [hResp EXCEPT ![h] = NoResp]
  /\ hProbe' = [hProbe EXCEPT ![h] = "none"]
  /\ UNCHANGED <<config, monVars, healthVars, healthRequests, probeVars, runVars,
                 signalVars, childVars, coordVars>>

\* ------------------------------------------------------------ main.run
\* a run that reports success whatever Manager.Run returned
ExitCode_AlwaysClean(err) == 0

\* main.run: 1 when Manager.Run returned an error, 0 otherwise
ExitCode(err) == IF err = "nil" THEN 0 ELSE 1

\* main.run up to the call of Manager.Run: LoadFromEnv failed, or there is
\* no command on the command line (cfg.App.Command is args[1:]), and the
\* process exits with 1; otherwise server, monitor, manager and coordinator
\* are built
MainStart ==
  /\ runPc = "main"
  /\ IF Validate(config) # "nil" \/ config.commandEmpty
       THEN runPc' = "exited" /\ exitCode' = 1
       ELSE runPc' = "init" /\ UNCHANGED exitCode
  /\ UNCHANGED <<config, monVars, healthVars, handlerVars, probeVars, runResult,
                 shutdownChan, listening, signalVars, childVars, coordVars>>

\* ------------------------------------------------------- process.Manager
\* Manager.Run, health server start: Server.Start launches ListenAndServe
\* on a goroutine and returns nil
RunStartServer ==
  /\ runPc = "init"
  /\ listening' = "binding"
  /\ runPc' = "started"
  /\ UNCHANGED <<config, monVars, healthVars, handlerVars, probeVars, runResult, exitCode,
                 shutdownChan, signalVars, childVars, coordVars>>

\* the goroutine of Server.Start: the listener binds, or fails and logs
ServerListen ==
  /\ listening = "binding"
  /\ \E ok \in BOOLEAN : listening' = IF ok THEN "yes" ELSE "failed"
  /\ UNCHANGED <<config, monVars, healthVars, handlerVars, probeVars, runPc, runResult, exitCode,
                 shutdownChan, signalVars, childVars, coordVars>>

\* a Run that starts the child and does not hand it to the coordinator
RunSpawn_NoSetAppProcess ==
  /\ runPc = "started"
  /\ IF config.commandEmpty
       THEN /\ runPc' = "returned"
            /\ runResult' = "no application command specified"
            /\ exitCode' = ExitCode(runResult')
            /\ UNCHANGED <<childState, appProcess>>
       ELSE \E ok \in BOOLEAN :
              IF ok
                THEN /\ childState' = "running"
                     /\ appProcess' = appProcess
                     /\ runPc' = "spawned"
                     /\ UNCHANGED <<runResult, exitCode>>
                ELSE /\ runPc' = "returned"
                     /\ runResult' = "failed to start application"
                     /\ exitCode' = ExitCode(runResult')
                     /\ UNCHANGED <<childState, appProcess>>
  /\ UNCHANGED <<config, monVars, healthVars, handlerVars, probeVars, shutdownChan,
                 listening, signalVars, reapedBy, coPc, coSig, coInvocations,
                 drainResult, coSignal, waitPc, done, shutElapsed, killSent,
                 coResult>>

\* Manager.Run, command check and exec.Cmd.Start, then SetAppProcess
RunSpawn ==
  /\ runPc = "started"
  /\ IF config.commandEmpty
       THEN /\ runPc' = "returned"
            /\ runResult' = "no application command specified"
            /\ exitCode' = ExitCode(runResult')
            /\ UNCHANGED <<childState, appProcess>>
       ELSE \E ok \in BOOLEAN :
              IF ok
                THEN /\ childState' = "running"
                     /\ appProcess' = "child"
                     /\ runPc' = "spawned"
                     /\ UNCHANGED <<runResult, exitCode>>
                ELSE /\ runPc' = "returned"
                     /\ runResult' = "failed to start application"
                     /\ exitCode' = ExitCode(runResult')
                     /\ UNCHANGED <<childState, appProcess>>
  /\ UNCHANGED <<config, monVars, healthVars, handlerVars, probeVars, shutdownChan,
                 listening, signalVars, reapedBy, coPc, coSig, coInvocations,
                 drainResult, coSignal, waitPc, done, shutElapsed, killSent,
                 coResult>>

\* Manager.Run, the rest: Setup registers the signals, the signal loop and
\* the startup-probe task are launched, Run blocks on shutdownChan
RunSetup ==
  /\ runPc = "spawned"
  /\ runPc' = "waiting"
  /\ sigHandler' = NewSignalHandler(config.passThrough, config.shutdown, "child")
  /\ sigPc' = "recv"
  /\ pbPc' = "check"
  /\ UNCHANGED <<config, monVars, healthVars, handlerVars, pbElapsed, pbHealthy,
                 pbChecks, pbOks, runResult, exitCode, shutdownChan, listening, sigChan,
                 delivered, received, forwarded, handleCalls,
                 forwardsOk, childVars, coordVars>>

\* Manager.Run: return <-shutdownChan; main.run turns the error into the
\* exit code
RunReturn ==
  /\ runPc = "waiting"
  /\ shutdownChan # <<>>
  /\ runResult' = Head(shutdownChan)
  /\ exitCode' = ExitCode(runResult')
  /\ shutdownChan' = Tail(shutdownChan)
  /\ runPc' = "returned"
  /\ UNCHANGED <<config, monVars, healthVars, handlerVars, probeVars, listening,
                 signalVars, childVars, coordVars>>

\* a wait that gives up at the first failed check
ProbeCheck_NoRetry ==
  /\ pbPc = "check"
  /\ IF ~config.hasChecker
       THEN pbHealthy' = TRUE /\ pbPc' = "set" /\ UNCHANGED <<pbChecks, pbOks>>
       ELSE \E ok \in BOOLEAN :
              /\ pbChecks' = pbChecks + 1
              /\ pbOks' = IF ok THEN pbOks + 1 ELSE pbOks
              /\ pbHealthy' = ok
              /\ pbPc' = "set"
  /\ UNCHANGED <<config, monVars, healthVars, handlerVars, pbElapsed, runVars,
                 signalVars, childVars, coordVars>>

\* Server.WaitForAppHealthy / AppHealthChecker.WaitForHealthy, one round:
\* no probe: true at once; else Check, then the deadline test, then the ticker
ProbeCheck ==
  /\ pbPc = "check"
  /\ IF ~config.hasChecker
       THEN pbHealthy' = TRUE /\ pbPc' = "set" /\ UNCHANGED <<pbChecks, pbOks>>
       ELSE \E ok \in BOOLEAN :
              /\ pbChecks' = pbChecks + 1
              /\ pbOks' = IF ok THEN pbOks + 1 ELSE pbOks
              /\ IF ok THEN pbHealthy' = TRUE /\ pbPc' = "set"
                 ELSE IF pbElapsed > StartupTimeout
                   THEN pbHealthy' = FALSE /\ pbPc' = "set"
                   ELSE pbPc' = "sleep" /\ UNCHANGED pbHealthy
  /\ UNCHANGED <<config, monVars, healthVars, handlerVars, pbElapsed, runVars,
                 signalVars, childVars, coordVars>>

\* WaitForHealthy: <-ticker.C, one probe interval later
ProbeTick ==
  /\ pbPc = "sleep"
  /\ pbElapsed' = pbElapsed + 1
  /\ pbPc' = "check"
  /\ UNCHANGED <<config, monVars, healthVars, handlerVars, pbHealthy, pbChecks,
                 pbOks, runVars,
                 signalVars, childVars, coordVars>>

\* a startup-probe task for which an application that never became healthy
\* is fatal: the error goes to the channel Run returns from
ProbeSet_UnhealthyIsFatal ==
  /\ pbPc = "set"
  /\ SetState(IF pbHealthy THEN StateHealthy ELSE StateUnhealthy)
  /\ pbPc' = "done"
  /\ shutdownChan' = IF pbHealthy THEN shutdownChan
                     ELSE Append(shutdownChan, "application not healthy")
  /\ UNCHANGED <<config, monVars, handlerVars, pbElapsed, pbHealthy, pbChecks,
                 pbOks, runPc, runResult, exitCode, listening,
                 signalVars, childVars, coordVars>>

\* Manager.waitForAppHealthy: SetState(Healthy or Unhealthy)
ProbeSet ==
  /\ pbPc = "set"
  /\ SetState(IF pbHealthy THEN StateHealthy ELSE StateUnhealthy)
  /\ pbPc' = "done"
  /\ UNCHANGED <<config, monVars, handlerVars, pbElapsed, pbHealthy, pbChecks,
                 pbOks, runVars,
                 signalVars, childVars, coordVars>>

\* ------------------------------------------------------------- signals
RECURSIVE SumOver(_, _)
SumOver(f, S) ==
  IF S = {} THEN 0
  ELSE LET s == CHOOSE x \in S : TRUE IN f[s] + SumOver(f, S \ {s})

Sum(f) == SumOver(f, DOMAIN f)

\* a classification that looks at the pass-through map first
Handle_PassThroughFirst(sig) ==
  IF sig \in sigHandler.passThroughSignals THEN ActionPassThrough
  ELSE IF sig \in sigHandler.shutdownSignals THEN ActionShutdown
  ELSE IF sig = "SIGCHLD" THEN ActionReapZombies
  ELSE ActionIgnore

\* SignalHandler.Handle: the classification, in priority order
Handle(sig) ==
  IF sig \in sigHandler.shutdownSignals THEN ActionShutdown
  ELSE IF sig \in sigHandler.passThroughSignals THEN ActionPassThrough
  ELSE IF sig = "SIGCHLD" THEN ActionReapZombies
  ELSE ActionIgnore

\* a counter that leaves out the signals nothing is done with
CountReceived_OnlyRouted(counter, sig, action) ==
  IF action = ActionIgnore THEN counter ELSE [counter EXCEPT ![sig] = @ + 1]

\* Handle, first statement: SignalsReceived.WithLabelValues(name).Inc()
CountReceived(counter, sig, action) == [counter EXCEPT ![sig] = @ + 1]

\* forwardSignalToApp: SignalsForwarded is incremented when Signal returned nil
CountForwarded(counter, sig, ok) ==
  IF ok THEN [counter EXCEPT ![sig] = @ + 1] ELSE counter

\* signal.Notify's delivery: a send that never blocks, dropped when full
Notify(ch, sig) == IF Len(ch) < 1 THEN Append(ch, sig) ELSE ch

\* the environment raises a registered signal
Deliver(sig) ==
  /\ runPc = "waiting"
  /\ sig \in Registered(sigHandler)
  /\ Sum(delivered) < MaxSignals
  /\ delivered' = [delivered EXCEPT ![sig] = @ + 1]
  /\ sigChan' = Notify(sigChan, sig)
  /\ UNCHANGED <<config, monVars, healthVars, handlerVars, probeVars, runVars,
                 received, forwarded, sigPc, sigHandler, handleCalls,
                 forwardsOk, childVars, coordVars>>

\* the application exits on its own account or because of a signal;
\* the kernel raises SIGCHLD
ChildExit ==
  /\ childState = "running"
  /\ childState' = "zombie"
  /\ IF runPc = "waiting"
       THEN /\ sigChan' = Notify(sigChan, "SIGCHLD")
            /\ delivered' = [delivered EXCEPT !["SIGCHLD"] = @ + 1]
       ELSE UNCHANGED <<sigChan, delivered>>
  /\ UNCHANGED <<config, monVars, healthVars, handlerVars, probeVars, runVars,
                 received, forwarded, sigPc, sigHandler, handleCalls,
                 forwardsOk, reapedBy, coordVars>>

\* where handleSignals continues after an action
LoopAfter_KeepsDispatching(action) == "recv"

LoopAfter(action) == IF action = ActionShutdown THEN "coord" ELSE "recv"

\* handleSignals, one iteration: receive, Handle (count, classify, forward),
\* then InitiateShutdown or reapZombies
Dispatch ==
  /\ sigPc = "recv"
  /\ sigChan # <<>>
  /\ LET sig == Head(sigChan)
         action == Handle(sig)
     IN /\ sigChan' = Tail(sigChan)
        /\ received' = CountReceived(received, sig, action)
        /\ handleCalls' = [handleCalls EXCEPT ![sig] = @ + 1]
        /\ sigPc' = LoopAfter(action)
        /\ IF action = ActionPassThrough
             \* forwardSignalToApp: counted when appProcess.Signal succeeds;
             \* signalling an exited, unreaped child may or may not succeed
             THEN \E ok \in (CASE childState = "running" -> {TRUE}
                               [] childState = "zombie" -> BOOLEAN
                               [] OTHER -> {FALSE}) :
                    /\ forwarded' = CountForwarded(forwarded, sig, ok)
                    /\ forwardsOk' = IF ok THEN [forwardsOk EXCEPT ![sig] = @ + 1]
                                     ELSE forwardsOk
             ELSE UNCHANGED <<forwarded, forwardsOk>>
        /\ IF action = ActionReapZombies /\ childState = "zombie"
             \* reapZombies: Wait4(-1, WNOHANG) until nothing is left
             THEN childState' = "reaped" /\ reapedBy' = "reaper"
             ELSE UNCHANGED childVars
        /\ IF action = ActionShutdown
             THEN /\ coPc' = "publish"
                  /\ coSig' = sig
                  /\ coInvocations' = coInvocations + 1
             ELSE UNCHANGED <<coPc, coSig, coInvocations>>
  /\ UNCHANGED <<config, monVars, healthVars, handlerVars, probeVars, runVars,
                 delivered, sigHandler, appProcess, drainResult, coSignal,
                 waitPc, done, shutElapsed, killSent, coResult>>

\* handleSignals: return m.shutdownCoord.InitiateShutdown(sig), and the
\* goroutine of Run puts the value on shutdownChan
HandleSignalsReturn ==
  /\ sigPc = "coord"
  /\ coPc = "done"
  /\ sigPc' = "returned"
  /\ shutdownChan' = Append(shutdownChan, coResult)
  /\ UNCHANGED <<config, monVars, healthVars, handlerVars, probeVars, runPc, runResult, exitCode,
                 listening, sigChan, delivered, received, forwarded,
                 sigHandler, handleCalls, forwardsOk, childVars, coordVars>>

\* -------------------------------------------------- shutdown.Coordinator
\* monitor.ErrDrainTimeout, a failed read of the kernel table, or nil
DrainResults == {"nil", "ErrDrainTimeout", "cannot read"}

\* the two texts of ECHILD that os.Process.Wait produces
NoChildErrors == {"waitid: no child processes", "wait: no child processes"}

\* a resolution that falls back to SIGTERM, not to the triggering signal
getSignalForApp_DefaultsToSIGTERM(signalToApp, receivedSignal) ==
  IF signalToApp = "" THEN "SIGTERM"
  ELSE IF ParseSignal(signalToApp) = "nil" THEN "SIGTERM"
  ELSE ParseSignal(signalToApp)

\* Coordinator.getSignalForApp
getSignalForApp(signalToApp, receivedSignal) ==
  IF signalToApp = "" THEN receivedSignal
  ELSE IF ParseSignal(signalToApp) = "nil" THEN receivedSignal
  ELSE ParseSignal(signalToApp)

\* InitiateShutdown, step 1: SetState(Draining), then the drain wait is entered
CoPublish ==
  /\ coPc = "publish"
  /\ SetState(StateDraining)
  /\ coPc' = "drain"
  /\ UNCHANGED <<config, monVars, handlerVars, probeVars, runVars, signalVars,
                 childVars, appProcess, coSig, coInvocations, drainResult,
                 coSignal, waitPc, done, shutElapsed, killSent, coResult>>

\* a coordinator that returns the error of the drain wait
CoDrainReturn_Propagates ==
  /\ coPc = "drain"
  /\ \E r \in DrainResults :
       /\ drainResult' = r
       /\ IF r # "nil" THEN coPc' = "done" /\ coResult' = r
          ELSE IF appProcess = "nil" THEN coPc' = "done" /\ coResult' = "nil"
          ELSE coPc' = "signal" /\ UNCHANGED coResult
  /\ UNCHANGED <<config, monVars, healthVars, handlerVars, probeVars, runVars,
                 signalVars, childVars, appProcess, coSig, coInvocations,
                 coSignal, waitPc, done, shutElapsed, killSent>>

\* InitiateShutdown: WaitForZeroConnections returns; its error is logged;
\* without a child handle the call returns nil
CoDrainReturn ==
  /\ coPc = "drain"
  /\ \E r \in DrainResults : drainResult' = r
  /\ IF appProcess = "nil"
       THEN coPc' = "done" /\ coResult' = "nil"
       ELSE coPc' = "signal" /\ UNCHANGED coResult
  /\ UNCHANGED <<config, monVars, healthVars, handlerVars, probeVars, runVars,
                 signalVars, childVars, appProcess, coSig, coInvocations,
                 coSignal, waitPc, done, shutElapsed, killSent>>

\* one deadline for both phases, with a drain timeout no shorter than the
\* shutdown timeout: after a drain wait that timed out nothing is left
CoSignalChild_TimerSharedWithDrain ==
  /\ coPc = "signal"
  /\ coSignal' = getSignalForApp(config.signalToApp, coSig)
  /\ waitPc' = "waiting"
  /\ shutElapsed' = IF drainResult = "ErrDrainTimeout" THEN ShutdownTimeout ELSE 0
  /\ coPc' = "select"
  /\ UNCHANGED <<config, monVars, healthVars, handlerVars, probeVars, runVars,
                 signalVars, childVars, appProcess, coSig, coInvocations,
                 drainResult, done, killSent, coResult>>

\* InitiateShutdown: the signal goes to the child (an error is logged), the
\* goroutine around Wait is started and time.After(ShutdownTimeout) is armed
CoSignalChild ==
  /\ coPc = "signal"
  /\ coSignal' = getSignalForApp(config.signalToApp, coSig)
  /\ waitPc' = "waiting"
  /\ shutElapsed' = 0
  /\ coPc' = "select"
  /\ UNCHANGED <<config, monVars, healthVars, handlerVars, probeVars, runVars,
                 signalVars, childVars, appProcess, coSig, coInvocations,
                 drainResult, done, killSent, coResult>>

\* a flattening that knows only one of the two texts
WaitResult_WaitidOnly(err) == IF err = "waitid: no child processes" THEN "nil" ELSE err

\* the value the goroutine puts on done for the error of Wait

WaitResult(err) == IF err \in NoChildErrors THEN "nil" ELSE err

\* appProcess.Wait can return: the child has exited, or its status is gone
Waitable == waitPc = "waiting" /\ childState \in {"zombie", "reaped"}

\* a channel done without a buffer: a send needs a receiver in the select
CanSend_Unbuffered(ch, receiverReady) == receiverReady

\* done := make(chan error, 1): a send goes through while the buffer has
\* room
CanSend(ch, receiverReady) == Len(ch) < 1

\* the goroutine of InitiateShutdown: Wait returns and done receives
WaitReturn ==
  /\ Waitable
  /\ CanSend(done, coPc = "select")
  /\ \E err \in (IF childState = "zombie" THEN {"nil"} ELSE NoChildErrors) :
       done' = Append(done, WaitResult(err))
  /\ IF childState = "zombie"
       THEN childState' = "reaped" /\ reapedBy' = "coordinator"
       ELSE UNCHANGED childVars
  /\ waitPc' = "sent"
  /\ UNCHANGED <<config, monVars, healthVars, handlerVars, probeVars, runVars,
                 signalVars, appProcess, coPc, coSig, coInvocations,
                 drainResult, coSignal, shutElapsed, killSent, coResult>>

\* a coordinator that publishes Terminating once the child is gone
CoSelectDone_PublishesTerminating ==
  /\ coPc = "select"
  /\ done # <<>>
  /\ coResult' = Head(done)
  /\ done' = Tail(done)
  /\ coPc' = "done"
  /\ SetState(StateTerminating)
  /\ UNCHANGED <<config, monVars, handlerVars, probeVars, runVars,
                 signalVars, childVars, appProcess, coSig, coInvocations,
                 drainResult, coSignal, waitPc, shutElapsed, killSent>>

\* InitiateShutdown, select: case err := <-done
CoSelectDone ==
  /\ coPc = "select"
  /\ done # <<>>
  /\ coResult' = Head(done)
  /\ done' = Tail(done)
  /\ coPc' = "done"
  /\ UNCHANGED <<config, monVars, healthVars, handlerVars, probeVars, runVars,
                 signalVars, childVars, appProcess, coSig, coInvocations,
                 drainResult, coSignal, waitPc, shutElapsed, killSent>>

\* a timeout branch that does not wait for the timer
CoSelectTimeout_NoDeadline ==
  /\ coPc = "select"
  /\ killSent' = config.forceKill
  /\ coResult' = "ErrShutdownTimeout"
  /\ coPc' = "done"
  /\ UNCHANGED <<config, monVars, healthVars, handlerVars, probeVars, runVars,
                 signalVars, childVars, appProcess, coSig, coInvocations,
                 drainResult, coSignal, waitPc, done, shutElapsed>>

\* a timeout branch that kills whatever the configuration says
CoSelectTimeout_AlwaysKills ==
  /\ coPc = "select"
  /\ shutElapsed >= ShutdownTimeout
  /\ killSent' = TRUE
  /\ coResult' = "ErrShutdownTimeout"
  /\ coPc' = "done"
  /\ UNCHANGED <<config, monVars, healthVars, handlerVars, probeVars, runVars,
                 signalVars, childVars, appProcess, coSig, coInvocations,
                 drainResult, coSignal, waitPc, done, shutElapsed>>

\* InitiateShutdown, select: case <-time.After(ShutdownTimeout)
CoSelectTimeout ==
  /\ coPc = "select"
  /\ shutElapsed >= ShutdownTimeout
  /\ killSent' = config.forceKill
  /\ coResult' = "ErrShutdownTimeout"
  /\ coPc' = "done"
  /\ UNCHANGED <<config, monVars, healthVars, handlerVars, probeVars, runVars,
                 signalVars, childVars, appProcess, coSig, coInvocations,
                 drainResult, coSignal, waitPc, done, shutElapsed>>

\* one tick of the shutdown timer; none while the Wait goroutine or the
\* select has a step to take
ShutdownTick ==
  /\ coPc = "select"
  /\ shutElapsed < ShutdownTimeout
  /\ done = <<>>
  /\ ~Waitable
  /\ shutElapsed' = shutElapsed + 1
  /\ UNCHANGED <<config, monVars, healthVars, handlerVars, probeVars, runVars,
                 signalVars, childVars, appProcess, coPc, coSig,
                 coInvocations, drainResult, coSignal, waitPc, done,
                 killSent, coResult>>

\* ------------------------------------------------------- monitor.Monitor
\* waitForSteadyState: steadyStateCheckInterval, 50ms, one tick
SteadyStateCheckInterval == 1

\* monitor.TCPState
StateEstablished == 1
StateSynSent == 2
StateSynRecv == 3
StateFinWait1 == 4
StateFinWait2 == 5
StateTimeWait == 6
StateClose == 7
StateCloseWait == 8
StateLastAck == 9
StateListen == 10
StateClosing == 11

\* the states a row of the kernel table can show: the eleven named ones and
\* a value without a name
TCPStates == 1..12

\* Connection: the local port and the state of one row
Rows == [port : {8080, 9090}, state : TCPStates]

\* a kernel table that can be read and has no row
EmptyTable == [readable |-> TRUE, rows |-> <<>>]

EmptyNet == [tcp |-> EmptyTable, tcp6 |-> EmptyTable]

\* no call of CountActiveConnections has returned yet
NoCount == [count |-> 0, err |-> "none"]

\* parseProcNetTCP: the rows of a table, or the error of reading it
parseProcNetTCP(table) ==
  IF table.readable THEN [conns |-> table.rows, err |-> "nil"]
  ELSE [conns |-> <<>>, err |-> "cannot read"]

\* Monitor.isMonitoredPort
isMonitoredPort(ports, port) == \E i \in DOMAIN ports : ports[i] = port

\* a classification that takes a connection in TIME_WAIT for a live one
isActiveState_WithTimeWait(state) ==
  state \in {StateEstablished, StateSynSent, StateSynRecv, StateFinWait1,
             StateFinWait2, StateTimeWait, StateCloseWait, StateClosing,
             StateLastAck}

\* Monitor.isActiveState
isActiveState(state) ==
  state \in {StateEstablished, StateSynSent, StateSynRecv, StateFinWait1,
             StateFinWait2, StateCloseWait, StateClosing, StateLastAck}

\* Monitor.CountActiveConnections: both tables are read, tcp first; the rows
\* of both are counted when their port is monitored and their state active
CountActiveConnections(m, net) ==
  LET tcpConns == parseProcNetTCP(net.tcp)
      tcp6Conns == parseProcNetTCP(net.tcp6)
      allConns == tcpConns.conns \o tcp6Conns.conns
  IN IF tcpConns.err # "nil" THEN [count |-> 0, err |-> tcpConns.err]
     ELSE IF tcp6Conns.err # "nil" THEN [count |-> 0, err |-> tcp6Conns.err]
     ELSE [count |-> Cardinality({i \in DOMAIN allConns :
                                    /\ isMonitoredPort(m.ports, allConns[i].port)
                                    /\ isActiveState(allConns[i].state)}),
           err |-> "nil"]

\* a test calls CountActiveConnections: the result, and the gauge when the
\* tables could be read
CountCall ==
  /\ runPc = "count"
  /\ countResult' = CountActiveConnections(monitor, procNet)
  /\ activeConnections' = IF countResult'.err = "nil" THEN countResult'.count
                          ELSE activeConnections
  /\ UNCHANGED <<config, healthVars, handlerVars, probeVars, runVars,
                 signalVars, childVars, coordVars, monitor, procNet, wzTimeout,
                 wzPc, wzNow, wzDeadline, wzDeadline0, wzSteadyDeadline,
                 wzNextTick, wzDepth, wzStart, drainDuration, wzSamples,
                 wzResult, drainPhaseActive>>

\* a kernel table stops being readable, or is readable again
ProcNetToggle ==
  /\ runPc = "count"
  /\ \E which \in {"tcp", "tcp6"} :
       procNet' = [procNet EXCEPT ![which].readable = ~@]
  /\ UNCHANGED <<config, healthVars, handlerVars, probeVars, runVars,
                 signalVars, childVars, coordVars, monitor, countResult,
                 wzTimeout, wzPc, wzNow, wzDeadline, wzDeadline0,
                 wzSteadyDeadline, wzNextTick, wzDepth, wzStart, drainDuration, wzSamples,
                 wzResult,
                 drainPhaseActive, activeConnections>>

\* the connection counts a sample can give
Counts == {0, 1}

\* CountActiveConnections: a count, or the error of reading the kernel table
Samples ==
  [count : Counts, err : {"nil"}] \cup {[count |-> 0, err |-> "cannot read"]}

\* time.Time.After
After(t, u) == t > u

\* a re-entry that is given the configured timeout again
RemainingTimeout_Fresh(now, deadline) == wzTimeout

\* time.Until(deadline), the timeout of the re-entered wait
RemainingTimeout(now, deadline) == deadline - now

\* an entry that always goes through the polling loop
EntryDecision_AlwaysPoll(s, steadyStateEnabled) ==
  IF s.err # "nil" THEN "err" ELSE "poll"

\* WaitForZeroConnections, from the first sample to the ticker
EntryDecision(s, steadyStateEnabled) ==
  IF s.err # "nil" THEN "err"
  ELSE IF s.count = 0 THEN (IF steadyStateEnabled THEN "steady" ELSE "ok")
  ELSE "poll"

\* a polling loop that looks at the deadline before it looks at the sample
PollDecision_DeadlineFirst(s, steadyStateEnabled, now, deadline) ==
  IF s.err # "nil" THEN "err"
  ELSE IF After(now, deadline) THEN "timeout"
  ELSE IF s.count = 0 THEN (IF steadyStateEnabled THEN "steady" ELSE "ok")
  ELSE "continue"

\* a polling loop that stops quietly when the deadline has passed
PollDecision_GivesUpQuietly(s, steadyStateEnabled, now, deadline) ==
  IF s.err # "nil" THEN "err"
  ELSE IF s.count = 0 THEN (IF steadyStateEnabled THEN "steady" ELSE "ok")
  ELSE IF After(now, deadline) THEN "ok"
  ELSE "continue"

\* WaitForZeroConnections, one round of the polling loop: the sample is
\* looked at first, the deadline after it
PollDecision(s, steadyStateEnabled, now, deadline) ==
  IF s.err # "nil" THEN "err"
  ELSE IF s.count = 0 THEN (IF steadyStateEnabled THEN "steady" ELSE "ok")
  ELSE IF After(now, deadline) THEN "timeout"
  ELSE "continue"

\* a steady-state loop that is content with one more zero
SteadyDecision_FirstZeroIsEnough(s, now, steadyStateDeadline) ==
  IF s.err # "nil" THEN "err"
  ELSE IF s.count > 0 THEN "reenter"
  ELSE "ok"

\* a steady-state loop that samples again after a failed read
SteadyDecision_RetriesOnError(s, now, steadyStateDeadline) ==
  IF s.err # "nil" THEN "continue"
  ELSE IF s.count > 0 THEN "reenter"
  ELSE IF After(now, steadyStateDeadline) THEN "ok"
  ELSE "continue"

\* waitForSteadyState, one round after the overall deadline test: the
\* sample, then the steady-state deadline
SteadyDecision(s, now, steadyStateDeadline) ==
  IF s.err # "nil" THEN "err"
  ELSE IF s.count > 0 THEN "reenter"
  ELSE IF After(now, steadyStateDeadline) THEN "ok"
  ELSE "continue"

\* NewMonitor: steady-state wait off until SetSteadyStateWait is called
NewMonitor(ports, interval) ==
  [ports |-> ports, interval |-> interval, steadyStateWait |-> 0]

\* one CountActiveConnections result, stamped with the time it was taken
Stamp(s) == [at |-> wzNow, count |-> s.count, err |-> s.err]

RECURSIVE RunDeferred(_, _, _)
\* a return that publishes the duration of the activation that returned
\* first
RunDeferred_InnermostOnly(starts, now, gauge) ==
  IF starts = <<>> THEN gauge ELSE now - starts[Len(starts)]

\* the deferred functions of the activations, innermost first: each sets
\* DrainDuration to the time since its own start; the value left behind
RunDeferred(starts, now, gauge) ==
  IF starts = <<>> THEN gauge
  ELSE RunDeferred(SubSeq(starts, 1, Len(starts) - 1), now,
                   now - starts[Len(starts)])

\* the outermost WaitForZeroConnections returns r: every activation runs
\* its deferred DrainPhaseActive.Set(0) and DrainDuration.Set
WzReturn(r, starts) ==
  /\ wzPc' = "done"
  /\ wzResult' = r
  /\ drainPhaseActive' = 0
  /\ drainDuration' = RunDeferred(starts, wzNow, drainDuration)
  /\ wzStart' = <<>>
  /\ UNCHANGED <<wzSteadyDeadline, wzNextTick>>

\* waitForSteadyState is entered: its deadline and its 50ms ticker
WzEnterSteady(starts) ==
  /\ wzPc' = "steady"
  /\ wzStart' = starts
  /\ UNCHANGED drainDuration
  /\ wzSteadyDeadline' = wzNow + monitor.steadyStateWait
  /\ wzNextTick' = wzNow + SteadyStateCheckInterval
  /\ drainPhaseActive' = 1
  /\ UNCHANGED wzResult

\* the ticker of the polling loop is waited for
WzEnterPoll(starts) ==
  /\ wzPc' = "poll"
  /\ wzStart' = starts
  /\ UNCHANGED drainDuration
  /\ wzNextTick' = wzNow + monitor.interval
  /\ drainPhaseActive' = 1
  /\ UNCHANGED <<wzResult, wzSteadyDeadline>>

\* what follows a decision of the entry or of the polling loop
WzAfter(decision, s, starts) ==
  CASE decision = "err" -> WzReturn(s.err, starts)
    [] decision = "ok" -> WzReturn("nil", starts)
    [] decision = "timeout" -> WzReturn("ErrDrainTimeout", starts)
    [] decision = "steady" -> WzEnterSteady(starts)
    [] decision = "poll" -> WzEnterPoll(starts)
    [] decision = "continue" -> WzEnterPoll(starts)

\* metrics.ActiveConnections after a sample
GaugeAfter(s) == IF s.err = "nil" THEN s.count ELSE activeConnections

\* WaitForZeroConnections(timeout) is called: the gauge, the deadline, the
\* first sample and what it leads to
WzCall ==
  /\ wzPc = "idle"
  /\ wzDeadline' = wzNow + wzTimeout
  /\ wzDeadline0' = wzNow + wzTimeout
  /\ wzDepth' = 1
  /\ \E s \in Samples :
       /\ wzSamples' = <<Stamp(s)>>
       /\ activeConnections' = GaugeAfter(s)
       /\ WzAfter(EntryDecision(s, monitor.steadyStateWait > 0), s, <<wzNow>>)
  /\ UNCHANGED <<config, healthVars, handlerVars, probeVars, runVars,
                 signalVars, childVars, coordVars, monitor, procNet, countResult, wzTimeout, wzNow>>

\* the clock advances while the wait sleeps on its ticker
WzClock ==
  /\ wzPc \in {"poll", "steady"}
  /\ wzNow < wzNextTick
  /\ wzNow' = wzNow + 1
  /\ UNCHANGED <<config, healthVars, handlerVars, probeVars, runVars,
                 signalVars, childVars, coordVars, monitor, procNet, countResult, wzTimeout, wzPc,
                 wzDeadline, wzDeadline0, wzSteadyDeadline, wzNextTick,
                 wzDepth, wzStart, drainDuration, wzSamples, wzResult,
                 drainPhaseActive,
                 activeConnections>>

\* the polling loop, case <-ticker.C
WzPollTick ==
  /\ wzPc = "poll"
  /\ wzNow = wzNextTick
  /\ \E s \in Samples :
       /\ wzSamples' = Append(wzSamples, Stamp(s))
       /\ activeConnections' = GaugeAfter(s)
       /\ WzAfter(PollDecision(s, monitor.steadyStateWait > 0, wzNow, wzDeadline), s,
                  wzStart)
  /\ UNCHANGED <<config, healthVars, handlerVars, probeVars, runVars,
                 signalVars, childVars, coordVars, monitor, procNet, countResult, wzTimeout, wzNow,
                 wzDeadline, wzDeadline0, wzDepth>>

\* the steady-state loop, case <-ticker.C: the overall deadline is tested
\* before anything is sampled; a count above zero re-enters
\* WaitForZeroConnections with what is left of the deadline
WzSteadyTick ==
  /\ wzPc = "steady"
  /\ wzNow = wzNextTick
  /\ IF After(wzNow, wzDeadline)
       THEN /\ WzReturn("ErrDrainTimeout", wzStart)
            /\ UNCHANGED <<wzSamples, activeConnections, wzDeadline, wzDepth>>
       ELSE \E s \in Samples :
              LET decision == SteadyDecision(s, wzNow, wzSteadyDeadline) IN
              IF decision = "reenter"
                THEN /\ wzDeadline' = wzNow + RemainingTimeout(wzNow, wzDeadline)
                     /\ wzDepth' = wzDepth + 1
                     /\ \E r \in Samples :
                          /\ wzSamples' = wzSamples \o <<Stamp(s), Stamp(r)>>
                          /\ activeConnections' = IF r.err = "nil" THEN r.count
                                                  ELSE s.count
                          /\ WzAfter(EntryDecision(r, monitor.steadyStateWait > 0), r,
                                     Append(wzStart, wzNow))
                ELSE /\ wzSamples' = Append(wzSamples, Stamp(s))
                     /\ activeConnections' = GaugeAfter(s)
                     /\ UNCHANGED <<wzDeadline, wzDepth>>
                     /\ IF decision = "continue"
                          THEN /\ wzNextTick' = wzNow + SteadyStateCheckInterval
                               /\ UNCHANGED <<wzPc, wzResult, wzSteadyDeadline,
                                              drainPhaseActive, wzStart,
                                              drainDuration>>
                          ELSE WzAfter(decision, s, wzStart)
  /\ UNCHANGED <<config, healthVars, handlerVars, probeVars, runVars,
                 signalVars, childVars, coordVars, monitor, procNet, countResult, wzTimeout, wzNow,
                 wzDeadline0>>

\* ------------------------------------------------------- direct drivers
\* a test calls Server.SetState with any value
ExternalSet ==
  /\ runPc = "direct"
  /\ \E t \in HealthStates \cup {StateUnknown} : SetState(t)
  /\ UNCHANGED <<config, monVars, handlerVars, probeVars, runVars, signalVars,
                 childVars, coordVars>>

\* a test calls InitiateShutdown with a signal: for the first time, or again
\* after an earlier call has returned and left no goroutine in Wait behind;
\* the channel done is a local of the call
DirectInvoke ==
  /\ runPc = "direct"
  /\ coInvocations < MaxInvocations
  /\ \/ coPc = "idle"
     \/ coPc = "done" /\ waitPc \in {"none", "sent"}
  /\ \E sig \in {"SIGTERM", "SIGINT"} : coSig' = sig
  /\ coPc' = "publish"
  /\ coInvocations' = coInvocations + 1
  /\ done' = <<>>
  /\ UNCHANGED <<config, monVars, healthVars, handlerVars, probeVars, runVars,
                 signalVars, childVars, appProcess, drainResult, coSignal,
                 waitPc, shutElapsed, killSent, coResult>>

\* a test sends a signal on the channel it gave to handleSignals
DirectSend(sig) ==
  /\ runPc = "signals"
  /\ Sum(delivered) < MaxSignals
  /\ delivered' = [delivered EXCEPT ![sig] = @ + 1]
  /\ sigChan' = Append(sigChan, sig)
  /\ UNCHANGED <<config, monVars, healthVars, handlerVars, probeVars, runVars,
                 received, forwarded, sigPc, sigHandler, handleCalls,
                 forwardsOk, childVars, coordVars>>

\* a test starts handleSignals on a goroutine
DirectLoop ==
  /\ runPc = "signals"
  /\ sigPc = "idle"
  /\ sigPc' = "recv"
  /\ UNCHANGED <<config, monVars, healthVars, handlerVars, probeVars, runVars,
                 sigChan, delivered, received, forwarded, sigHandler,
                 handleCalls, forwardsOk, childVars, coordVars>>

\* ----------------------------------------------------- specifications
Configs ==
  [hasChecker : BOOLEAN, forceKill : BOOLEAN,
   signalToApp : {"", "SIGQUIT", "SIGSTOP"}, commandEmpty : BOOLEAN,
   loadErr : BOOLEAN, passThrough : SignalLists, shutdown : SignalLists]

ZeroCount == [s \in SigNames |-> 0]

\* what NewServer, NewCoordinator(.., nil) and NewManager leave behind
InitCommon ==
  /\ config \in Configs
  /\ current = StateStarting
  /\ stateGauge = StateStarting
  /\ lastSet = "none"
  /\ hPc = [h \in Handlers |-> "idle"]
  /\ hSample = [h \in Handlers |-> StateStarting]
  /\ hAfterDrain = [h \in Handlers |-> FALSE]
  /\ hResp = [h \in Handlers |-> NoResp]
  /\ hProbe = [h \in Handlers |-> "none"]
  /\ healthRequests = 0
  /\ pbPc = "idle"
  /\ pbElapsed = 0
  /\ pbHealthy = FALSE
  /\ pbChecks = 0
  /\ pbOks = 0
  /\ runResult = "none"
  /\ exitCode = -1
  /\ shutdownChan = <<>>
  /\ sigChan = <<>>
  /\ delivered = ZeroCount
  /\ received = ZeroCount
  /\ forwarded = ZeroCount
  /\ handleCalls = ZeroCount
  /\ forwardsOk = ZeroCount
  /\ sigPc = "idle"
  /\ coPc = "idle"
  /\ coSig = "none"
  /\ coInvocations = 0
  /\ drainResult = "none"
  /\ coSignal = "none"
  /\ waitPc = "none"
  /\ done = <<>>
  /\ shutElapsed = 0
  /\ killSent = FALSE
  /\ coResult = "none"
  /\ wzPc = "idle"
  /\ wzNow = 0
  /\ wzDeadline = 0
  /\ wzDeadline0 = 0
  /\ wzSteadyDeadline = 0
  /\ wzNextTick = 0
  /\ wzDepth = 0
  /\ wzStart = <<>>
  /\ drainDuration = 0
  /\ wzSamples = <<>>
  /\ wzResult = "none"
  /\ drainPhaseActive = 0
  /\ activeConnections = 0
  /\ countResult = NoCount

\* main.run: no signal handler before Run builds it, the monitor of NewMonitor
InitWiring ==
  /\ config.passThrough = PassThroughSignals
  /\ config.shutdown = ShutdownSignals
  /\ sigHandler = NoSignalHandler
  /\ monitor = NewMonitor(<<8080>>, 1)
  /\ procNet = EmptyNet
  /\ wzTimeout = 0

Init ==
  /\ InitCommon
  /\ InitWiring
  /\ runPc = "main"
  /\ listening = "off"
  /\ childState = "none"
  /\ reapedBy = "none"
  /\ appProcess = "nil"

Next ==
  \/ MainStart
  \/ RunStartServer
  \/ ServerListen
  \/ RunSpawn
  \/ RunSetup
  \/ RunReturn
  \/ ProbeCheck
  \/ ProbeTick
  \/ ProbeSet
  \/ \E h \in Handlers : HandlerSample(h)
  \/ \E h \in Handlers : HandlerRespond(h)
  \/ \E h \in Handlers : HandlerFinish(h)
  \/ \E sig \in allSignals : Deliver(sig)
  \/ ChildExit
  \/ Dispatch
  \/ HandleSignalsReturn
  \/ CoPublish
  \/ CoDrainReturn
  \/ CoSignalChild
  \/ WaitReturn
  \/ CoSelectDone
  \/ CoSelectTimeout
  \/ ShutdownTick

Spec == Init /\ [][Next]_vars

\* the goroutines of the supervisor are scheduled fairly; the environment
\* (signals, requests, the child, the clock of the probe) owes nothing
FairSpec ==
  /\ Spec
  /\ WF_vars(MainStart)
  /\ WF_vars(RunStartServer) /\ WF_vars(RunSpawn) /\ WF_vars(RunSetup)
  /\ WF_vars(RunReturn) /\ WF_vars(Dispatch) /\ WF_vars(HandleSignalsReturn)
  /\ WF_vars(CoPublish) /\ WF_vars(CoDrainReturn) /\ WF_vars(CoSignalChild)
  /\ WF_vars(WaitReturn) /\ WF_vars(CoSelectDone) /\ WF_vars(CoSelectTimeout)
  /\ WF_vars(ShutdownTick)

\* the package tests: a server and a coordinator built by hand, the child
\* started (and possibly already waited for) by the test
InitDirect ==
  /\ InitCommon
  /\ InitWiring
  /\ ~config.commandEmpty /\ ~config.loadErr
  /\ runPc = "direct"
  /\ listening = "yes"
  /\ appProcess \in {"nil", "child"}
  /\ childState \in (IF appProcess = "nil" THEN {"none"} ELSE {"running", "reaped"})
  /\ reapedBy = IF childState = "reaped" THEN "test" ELSE "none"

NextDirect ==
  \/ ExternalSet
  \/ DirectInvoke
  \/ \E h \in Handlers : HandlerSample(h)
  \/ \E h \in Handlers : HandlerRespond(h)
  \/ \E h \in Handlers : HandlerFinish(h)
  \/ ChildExit
  \/ CoPublish
  \/ CoDrainReturn
  \/ CoSignalChild
  \/ WaitReturn
  \/ CoSelectDone
  \/ CoSelectTimeout
  \/ ShutdownTick

SpecDirect == InitDirect /\ [][NextDirect]_vars

\* the tests of the coordinator alone: InitiateShutdown called by the test,
\* with or without a child, which runs, exits or was already waited for
NextCoordinator ==
  \/ DirectInvoke
  \/ ChildExit
  \/ CoPublish
  \/ CoDrainReturn
  \/ CoSignalChild
  \/ WaitReturn
  \/ CoSelectDone
  \/ CoSelectTimeout
  \/ ShutdownTick

SpecCoordinator == InitDirect /\ [][NextCoordinator]_vars

\* the goroutines of InitiateShutdown are scheduled and its timer runs; the
\* test and the child owe nothing
FairSpecCoordinator ==
  /\ SpecCoordinator
  /\ WF_vars(CoPublish) /\ WF_vars(CoDrainReturn) /\ WF_vars(CoSignalChild)
  /\ WF_vars(WaitReturn) /\ WF_vars(CoSelectDone) /\ WF_vars(CoSelectTimeout)
  /\ WF_vars(ShutdownTick)

\* a run of main.run for any pair of signal lists in the environment, with
\* the default shutdown settings
InitConfig ==
  /\ InitCommon
  /\ config.forceKill = FALSE
  /\ config.signalToApp = "" /\ config.commandEmpty = FALSE
  /\ config.loadErr = FALSE
  /\ sigHandler = NoSignalHandler
  /\ monitor = NewMonitor(<<8080>>, 1)
  /\ procNet = EmptyNet
  /\ wzTimeout = 0
  /\ runPc = "main"
  /\ listening = "off"
  /\ childState = "none"
  /\ reapedBy = "none"
  /\ appProcess = "nil"

NextConfig ==
  \/ MainStart
  \/ RunStartServer
  \/ ServerListen
  \/ RunSpawn
  \/ RunSetup
  \/ RunReturn
  \/ ProbeCheck
  \/ ProbeTick
  \/ ProbeSet
  \/ \E h \in Handlers : HandlerSample(h)
  \/ \E h \in Handlers : HandlerRespond(h)
  \/ \E h \in Handlers : HandlerFinish(h)
  \/ \E sig \in SigNames : Deliver(sig)
  \/ ChildExit
  \/ Dispatch
  \/ HandleSignalsReturn
  \/ CoPublish
  \/ CoDrainReturn
  \/ CoSignalChild
  \/ WaitReturn
  \/ CoSelectDone
  \/ CoSelectTimeout
  \/ ShutdownTick

SpecConfig == InitConfig /\ [][NextConfig]_vars

\* the signals a test hands to Handle or to the channel of handleSignals
TestSignals == {"SIGHUP", "SIGTERM", "SIGCHLD", "SIGUSR1"}

\* the tests of the signal loop: a handler for any SignalConfig, a child that
\* runs or is already gone, the channel written by the test
InitSignals ==
  /\ InitCommon
  /\ config.hasChecker = FALSE /\ config.commandEmpty = FALSE
  /\ config.loadErr = FALSE
  /\ config.signalToApp = ""
  /\ sigHandler = NewSignalHandler(config.passThrough, config.shutdown, "child")
  /\ monitor = NewMonitor(<<8080>>, 1)
  /\ procNet = EmptyNet
  /\ wzTimeout = 0
  /\ runPc = "signals"
  /\ listening = "yes"
  /\ appProcess = "child"
  /\ childState \in {"running", "reaped"}
  /\ reapedBy = IF childState = "reaped" THEN "test" ELSE "none"

NextSignals ==
  \/ DirectLoop
  \/ \E sig \in TestSignals : DirectSend(sig)
  \/ ChildExit
  \/ Dispatch
  \/ HandleSignalsReturn
  \/ CoPublish
  \/ CoDrainReturn
  \/ CoSignalChild
  \/ WaitReturn
  \/ CoSelectDone
  \/ CoSelectTimeout
  \/ ShutdownTick

SpecSignals == InitSignals /\ [][NextSignals]_vars

\* the tests of the monitor: any interval, steady-state wait and timeout
InitDrain ==
  /\ InitCommon
  /\ config = [hasChecker |-> FALSE, forceKill |-> FALSE, signalToApp |-> "",
               commandEmpty |-> FALSE, loadErr |-> FALSE,
               passThrough |-> PassThroughSignals,
               shutdown |-> ShutdownSignals]
  /\ sigHandler = NoSignalHandler
  /\ monitor \in [ports : {<<8080>>}, interval : 1..MaxInterval,
                  steadyStateWait : 0..MaxSteadyWait]
  /\ procNet = EmptyNet
  /\ wzTimeout \in 0..MaxDrainTimeout
  /\ runPc = "drain"
  /\ listening = "off"
  /\ appProcess = "nil"
  /\ childState = "none"
  /\ reapedBy = "none"

NextDrain ==
  \/ WzCall
  \/ WzClock
  \/ WzPollTick
  \/ WzSteadyTick

SpecDrain == InitDrain /\ [][NextDrain]_vars

\* the goroutine in WaitForZeroConnections is scheduled and its tickers
\* fire: time passes while it sleeps and a tick that is due is served
FairSpecDrain ==
  /\ SpecDrain
  /\ WF_vars(WzClock) /\ WF_vars(WzPollTick) /\ WF_vars(WzSteadyTick)

\* the tests of the counter: any rows in the two tables, one or two
\* monitored ports
InitCount ==
  /\ InitCommon
  /\ config = [hasChecker |-> FALSE, forceKill |-> FALSE, signalToApp |-> "",
               commandEmpty |-> FALSE, loadErr |-> FALSE,
               passThrough |-> PassThroughSignals,
               shutdown |-> ShutdownSignals]
  /\ sigHandler = NoSignalHandler
  /\ \E ports \in {<<8080>>, <<8080, 9090>>} : monitor = NewMonitor(ports, 1)
  /\ \E n4 \in 0..MaxConns : \E n6 \in 0..(MaxConns - n4) :
       \E a \in [1..n4 -> Rows], b \in [1..n6 -> Rows] :
         procNet = [tcp |-> [readable |-> TRUE, rows |-> a],
                    tcp6 |-> [readable |-> TRUE, rows |-> b]]
  /\ wzTimeout = 0
  /\ runPc = "count"
  /\ listening = "off"
  /\ appProcess = "nil"
  /\ childState = "none"
  /\ reapedBy = "none"

NextCount ==
  \/ CountCall
  \/ ProcNetToggle

SpecCount == InitCount /\ [][NextCount]_vars

\* ------------------------------------------------------------- claims

\* C1: under Manager.Run, with the coordinator, the startup-probe task and
\* the health handlers all calling Set, a state that is Draining is never
\* followed by Starting, Healthy or Unhealthy.
C1_DrainingNeverRegresses ==
  [][current = StateDraining => current' \in {StateDraining, StateTerminating}]_vars

\* Draining is the state and a Set that came later was turned away
C1_Witness == current = StateDraining /\ lastSet = "blocked" /\ runPc = "waiting"

\* C2: for any sequence of Set calls with any targets, a state that is
\* Terminating stays Terminating.
C2_TerminatingIsTerminal ==
  [][current = StateTerminating => current' = StateTerminating]_vars

\* Terminating is the state and a later Set was turned away
C2_Witness == current = StateTerminating /\ lastSet = "blocked" /\ runPc = "direct"

\* C3: InitiateShutdown with a child handle goes in order: Draining is
\* published before the drain wait, the drain wait has returned before the
\* child is signalled, the child is signalled before the wait for its exit
\* begins, and SIGKILL is sent only after ShutdownTimeout has elapsed in that
\* wait.
C3_ShutdownOrder ==
  /\ (coPc \in {"drain", "signal", "select", "done"} => current = StateDraining)
  /\ (coPc = "drain" => drainResult = "none" /\ coSignal = "none")
  /\ (coSignal # "none" => current = StateDraining /\ drainResult # "none")
  /\ (waitPc # "none" => coSignal # "none")
  /\ (killSent => waitPc # "none" /\ shutElapsed >= ShutdownTimeout)

\* the whole sequence has run, up to the SIGKILL
C3_Witness == coPc = "done" /\ killSent /\ coSignal # "none" /\ appProcess = "child"

\* C4: whatever the drain wait returns, InitiateShutdown goes on: with a
\* child handle the child is signalled afterwards, and the error of the
\* drain wait is never what InitiateShutdown returns.
C4_DrainErrorSwallowed ==
  /\ (drainResult # "none" => coPc \in {"signal", "select", "done"})
  /\ (coPc = "done" =>
        /\ coResult \notin {"ErrDrainTimeout", "cannot read"}
        /\ (appProcess # "nil" => coSignal # "none"))

\* the drain wait failed with a read error, the child was signalled and the
\* call has returned
C4_Witness ==
  coPc = "done" /\ drainResult = "cannot read" /\ coSignal # "none" /\ coResult = "nil"

\* C5: a return of InitiateShutdown while the child has still not exited is
\* the shutdown-timeout error, taken once ShutdownTimeout has elapsed; on
\* that return SIGKILL has been sent exactly when ForceKillAfterTimeout is
\* set; on the return that observed the exit no SIGKILL is sent.
C5_TimeoutAndKill ==
  [][(coPc = "select" /\ coPc' = "done") =>
       /\ (childState = "running" => coResult' = "ErrShutdownTimeout")
       /\ (coResult' = "ErrShutdownTimeout" =>
             /\ shutElapsed >= ShutdownTimeout
             /\ (killSent' <=> config.forceKill))
       /\ (coResult' # "ErrShutdownTimeout" => ~killSent')]_vars

\* the timeout was returned without force-kill and the child still runs
C5_Witness ==
  /\ coPc = "done" /\ coResult = "ErrShutdownTimeout"
  /\ ~config.forceKill /\ ~killSent /\ childState = "running"

\* C6: when the exit status of the child was consumed before the
\* coordinator waited for it, InitiateShutdown returns nil.
C6_NoChildIsOk ==
  (coPc = "done" /\ reapedBy \in {"reaper", "test"}) => coResult = "nil"

\* the reaper took the child's status and the coordinator has returned
C6_Witness == coPc = "done" /\ reapedBy = "reaper" /\ coResult = "nil"

\* C7: within one Manager.Run InitiateShutdown is invoked at most once, on
\* the first shutdown signal dispatched, and after the invocation nothing
\* is dispatched, forwarded or reaped.
C7_CoordinatorOnce ==
  /\ [](coInvocations <= 1 /\ coInvocations = received["SIGTERM"])
  /\ [][coInvocations >= 1 =>
          /\ received' = received
          /\ forwarded' = forwarded
          /\ coInvocations' = coInvocations
          /\ (reapedBy' = "reaper" => reapedBy = "reaper")]_vars

\* a second shutdown signal sits in the queue while the coordinator runs
C7_Witness ==
  /\ coInvocations = 1 /\ coPc \in {"drain", "signal", "select"}
  /\ delivered["SIGTERM"] = 2 /\ sigChan = <<"SIGTERM">>

\* C8: every shutdown signal delivered after Setup eventually makes the
\* coordinator run, and Manager.Run returns the coordinator's result.
C8_ShutdownSignalRunsCoordinator ==
  /\ [](delivered["SIGTERM"] > 0 => <>(coInvocations > 0))
  /\ []((runPc = "returned" /\ coInvocations > 0) => runResult = coResult)

\* C9: a health request that starts after the coordinator has published
\* Draining samples Draining or Terminating and answers 503 draining or
\* 503 terminating, with or without an application probe.
C9_HandlerAfterDraining ==
  \A h \in Handlers :
    (hPc[h] # "idle" /\ hAfterDrain[h]) =>
      /\ hSample[h] \in {StateDraining, StateTerminating}
      /\ (hPc[h] = "done" =>
            hResp[h] \in {Resp(503, "draining"), Resp(503, "terminating")})

\* a request that started after the publication has been answered, with a
\* probe configured and the startup-probe task finished
C9_Witness ==
  \E h \in Handlers :
    /\ hPc[h] = "done" /\ hAfterDrain[h] /\ config.hasChecker
    /\ hResp[h] = Resp(503, "draining") /\ pbPc = "done"

AllBusy ==
  /\ wzSamples # <<>>
  /\ \A i \in DOMAIN wzSamples : wzSamples[i].err = "nil" /\ wzSamples[i].count > 0

\* C11: when every sample of WaitForZeroConnections is above zero and no
\* read fails, the call returns the drain-timeout error, for any positive
\* interval and any timeout: while it has not returned it sleeps on the
\* ticker of the polling loop, whose next tick is at most one interval past
\* the deadline, and when it has returned the result is ErrDrainTimeout.
C11_BusyUntilTimeout ==
  AllBusy =>
    /\ (wzPc = "done" => wzResult = "ErrDrainTimeout" /\ After(wzNow, wzDeadline0))
    /\ (wzPc # "done" =>
          /\ wzPc = "poll"
          /\ wzNow <= wzNextTick
          /\ wzNextTick <= wzDeadline0 + monitor.interval)

\* three busy samples, steady-state wait configured, the timeout returned
C11_Witness ==
  /\ AllBusy /\ wzPc = "done" /\ wzResult = "ErrDrainTimeout"
  /\ Len(wzSamples) >= 3 /\ monitor.steadyStateWait > 0

\* the samples from index k on are all zero and none failed
ZeroFrom(k) ==
  \A i \in DOMAIN wzSamples :
    i >= k => wzSamples[i].err = "nil" /\ wzSamples[i].count = 0

\* the index of the latest sample that showed connections, 0 if none did
LastBusy ==
  LET B == {i \in DOMAIN wzSamples : wzSamples[i].count > 0} IN
  IF B = {} THEN 0 ELSE CHOOSE i \in B : \A j \in B : j <= i

\* an ok under steady-state wait was preceded by a run of zero samples that
\* lasted longer than the steady-state duration
FreshSteadyInterval ==
  (wzPc = "done" /\ wzResult = "nil" /\ monitor.steadyStateWait > 0) =>
    /\ LastBusy < Len(wzSamples)
    /\ wzNow - wzSamples[LastBusy + 1].at > monitor.steadyStateWait

\* C12 as stated: after a count above zero during the steady-state wait the
\* main wait is re-entered, a later zero starts a full steady-state interval
\* again, the deadline is the one of the first entry, and the re-entered wait
\* never runs past that deadline plus one polling interval.
C12_ReentryWithinOneInterval ==
  /\ FreshSteadyInterval
  /\ (wzDepth > 1 =>
        /\ wzDeadline = wzDeadline0
        /\ wzNow <= wzDeadline0 + monitor.interval)

\* C12, amended: as above, but the re-entered wait never runs past the
\* deadline plus one polling interval plus one steady-state check interval:
\* a zero sample at the last polling tick starts a steady-state wait that
\* notices the deadline at its first tick, 50ms later.
C12_ReentryKeepsDeadline ==
  /\ FreshSteadyInterval
  /\ (wzDepth > 1 =>
        /\ wzDeadline = wzDeadline0
        /\ wzNow <= wzDeadline0 + monitor.interval + SteadyStateCheckInterval)

\* the wait was re-entered after a rise and then returned ok
C12_Witness ==
  /\ wzDepth > 1 /\ wzPc = "done" /\ wzResult = "nil"
  /\ monitor.steadyStateWait > 0 /\ LastBusy > 1

\* the index of the first sample that showed no connection, 0 if none did
FirstZero ==
  LET Z == {i \in DOMAIN wzSamples :
              wzSamples[i].err = "nil" /\ wzSamples[i].count = 0} IN
  IF Z = {} THEN 0 ELSE CHOOSE i \in Z : \A j \in Z : i <= j

C14_ImmediateOk ==
  (wzPc # "idle" /\ monitor.steadyStateWait = 0
     /\ wzSamples[1].err = "nil" /\ wzSamples[1].count = 0) =>
    /\ wzPc = "done" /\ wzResult = "nil"
    /\ Len(wzSamples) = 1
    /\ wzNow = 0

\* the immediate ok, with a timeout of zero
C14_Witness ==
  /\ wzPc = "done" /\ wzResult = "nil" /\ monitor.steadyStateWait = 0
  /\ Len(wzSamples) = 1 /\ wzSamples[1].count = 0 /\ wzTimeout = 0

\* C15: a read error of CountActiveConnections at any sample is the last
\* sample: the wait has returned at the time of that sample and its result
\* is that error.
C15_ReadErrorReturned ==
  \A i \in DOMAIN wzSamples :
    wzSamples[i].err # "nil" =>
      /\ i = Len(wzSamples)
      /\ wzPc = "done"
      /\ wzResult = wzSamples[i].err
      /\ wzNow = wzSamples[i].at

\* the read failed during the steady-state wait
C15_Witness ==
  /\ wzPc = "done" /\ wzResult = "cannot read" /\ monitor.steadyStateWait > 0
  /\ Len(wzSamples) >= 2 /\ wzSamples[Len(wzSamples) - 1].count = 0
  /\ wzSamples[Len(wzSamples) - 1].err = "nil"

\* C16: Handle classifies a signal in priority order: Shutdown when it is in
\* the shutdown map, else PassThrough when it is in the pass-through map,
\* else ReapZombies when it is SIGCHLD, else Ignore; in the signal loop only
\* a signal of the shutdown map calls the coordinator and ends the loop,
\* only a pass-through signal is forwarded and only SIGCHLD reaps.
C16_ClassifyInPriorityOrder ==
  /\ [](\A sig \in SigNames :
          LET shut == sig \in sigHandler.shutdownSignals
              pass == sig \in sigHandler.passThroughSignals
          IN /\ (shut => Handle(sig) = ActionShutdown)
             /\ (~shut /\ pass => Handle(sig) = ActionPassThrough)
             /\ (~shut /\ ~pass /\ sig = "SIGCHLD" => Handle(sig) = ActionReapZombies)
             /\ (~shut /\ ~pass /\ sig # "SIGCHLD" => Handle(sig) = ActionIgnore))
  /\ [][handleCalls' # handleCalls =>
          LET sig == Head(sigChan)
              shut == sig \in sigHandler.shutdownSignals
              pass == sig \in sigHandler.passThroughSignals
          IN /\ (sigPc' # "recv" <=> shut)
             /\ (coInvocations' # coInvocations <=> shut)
             /\ (forwardsOk' # forwardsOk => ~shut /\ pass)
             /\ (reapedBy' # reapedBy => ~shut /\ ~pass /\ sig = "SIGCHLD")]_vars

\* an unconfigured signal was dispatched and the loop went on; then a signal
\* that is in both maps ended the loop without being forwarded
C16_Witness ==
  /\ sigPc = "coord"
  /\ handleCalls["SIGUSR1"] = 1
  /\ \E sig \in sigHandler.shutdownSignals \cap sigHandler.passThroughSignals :
       handleCalls[sig] = 1 /\ forwardsOk[sig] = 0

\* C17: for every sequence of signals passed to Handle, the received
\* counter of a name is the number of Handle calls for it, whatever the
\* action, and the forwarded counter is the number of forwards that
\* succeeded; a forward that fails adds to the received counter only, and
\* the signal is still treated as PassThrough: the loop goes on.
C17_CountersMatchCalls ==
  /\ [](\A sig \in SigNames :
          received[sig] = handleCalls[sig] /\ forwarded[sig] = forwardsOk[sig])
  /\ [][(/\ handleCalls' # handleCalls
         /\ Head(sigChan) \in sigHandler.passThroughSignals \ sigHandler.shutdownSignals
         /\ forwardsOk' = forwardsOk) =>
          /\ received' = [received EXCEPT ![Head(sigChan)] = @ + 1]
          /\ forwarded' = forwarded
          /\ sigPc' = "recv"
          /\ coInvocations' = coInvocations]_vars

\* the same pass-through signal was forwarded once and failed once, and an
\* unconfigured signal would be counted too
C17_Witness ==
  /\ sigPc = "recv"
  /\ \E sig \in sigHandler.passThroughSignals :
       received[sig] = 2 /\ forwarded[sig] = 1 /\ childState # "running"

C19_StateDecides ==
  \A h \in Handlers :
    (hPc[h] = "done" /\ ~config.hasChecker) =>
      /\ hProbe[h] = "none"
      /\ hResp[h] = (CASE hSample[h] = StateStarting -> Resp(503, "starting")
                       [] hSample[h] = StateHealthy -> Resp(200, "healthy")
                       [] hSample[h] = StateUnhealthy -> Resp(503, "unhealthy")
                       [] hSample[h] = StateDraining -> Resp(503, "draining")
                       [] hSample[h] = StateTerminating -> Resp(503, "terminating")
                       [] OTHER -> Resp(500, "unknown"))
      /\ (hResp[h].code = 200 <=> hSample[h] = StateHealthy)

\* a request sampled a value outside the enumeration and answered 500
C19_Witness ==
  \E h \in Handlers :
    /\ hPc[h] = "done" /\ ~config.hasChecker /\ hSample[h] = StateUnknown
    /\ hResp[h] = Resp(500, "unknown")

\* C20: WaitForAppHealthy returns true as soon as one check succeeds (no
\* check is made after a success), and false only with every check failed
\* and the startup timeout elapsed, which it does not outlast by more than
\* one probe interval; with a probe it makes at least one check; without a
\* probe it returns true at once and checks nothing.
C20_StartupProbe ==
  /\ (pbOks > 0 => pbOks = 1 /\ pbPc \in {"set", "done"} /\ pbHealthy)
  /\ (pbPc = "sleep" => pbElapsed <= StartupTimeout)
  /\ (pbPc \in {"set", "done"} =>
        IF config.hasChecker
          THEN /\ pbChecks >= 1
               /\ (pbHealthy => pbOks = 1)
               /\ (~pbHealthy => pbOks = 0 /\ pbElapsed >= StartupTimeout)
          ELSE pbHealthy /\ pbChecks = 0 /\ pbElapsed = 0)

\* every check failed until the timeout, and Unhealthy was published
C20_Witness ==
  /\ pbPc = "done" /\ config.hasChecker /\ ~pbHealthy
  /\ pbChecks >= 2 /\ current = StateUnhealthy

C22_ListeningBeforeSpawn ==
  childState # "none" => listening = "yes"

\* C23: a failure of startup steps 1 to 3 (listener not bound, empty
\* command, spawn failure) makes Manager.Run return an error without going
\* on: no child is spawned, no signal handling is set up and the coordinator
\* is never invoked.
C23_StartupFailureIsFatal ==
  /\ (runResult \in {"no application command specified",
                     "failed to start application"} =>
        /\ runPc = "returned" /\ childState = "none"
        /\ sigPc = "idle" /\ coInvocations = 0)
  /\ (listening = "failed" =>
        /\ runPc \in {"started", "returned"}
        /\ childState = "none" /\ sigPc = "idle" /\ coInvocations = 0
        /\ (runPc = "returned" => runResult \notin {"none", "nil"}))

\* C24: when the child has exited on its own and no shutdown signal is
\* delivered, Manager.Run eventually returns.
C24_ReturnsWhenChildExits ==
  [](childState \in {"zombie", "reaped"} => <>(runPc = "returned"))

\* C25: a second invocation of InitiateShutdown, after the first has
\* returned, is a no-op: its steps do not enter the drain wait, do not
\* signal the child and do not change the lifecycle state; it just returns.
C25_SecondInvocationNoOp ==
  [][(coInvocations >= 2 /\ coPc # "done" /\ coPc' # coPc) =>
       /\ coPc' = "done"
       /\ drainResult' = drainResult
       /\ coSignal' = coSignal
       /\ current' = current]_vars

\* the values config.SignalToApp is given: empty, the seven recognized
\* names, and names ParseSignal does not know
SignalToAppNames == {""} \cup signalMap \cup {"SIGSTOP", "INVALID"}

C28_PhasesDoNotShareTime ==
  /\ [][(coPc = "signal" /\ coPc' = "select") => shutElapsed' = 0]_vars
  /\ [][(coPc = "select" /\ childState # "running"
           /\ shutElapsed < ShutdownTimeout) =>
          /\ shutElapsed' = shutElapsed
          /\ coResult' # "ErrShutdownTimeout"]_vars
  /\ [](coResult = "ErrShutdownTimeout" => shutElapsed >= ShutdownTimeout)

\* the drain wait timed out, the child exited before the shutdown timer had
\* run out, and the coordinator returned nil
C28_Witness ==
  /\ coPc = "done" /\ drainResult = "ErrDrainTimeout" /\ coResult = "nil"
  /\ reapedBy = "coordinator" /\ shutElapsed < ShutdownTimeout /\ runPc = "waiting"

\* the rows of a table on a monitored port and in one of the eight states
\* that count
Counted(table) ==
  Cardinality({i \in DOMAIN table.rows :
                 /\ table.rows[i].port \in Range(monitor.ports)
                 /\ table.rows[i].state \in
                      {StateEstablished, StateSynSent, StateSynRecv,
                       StateFinWait1, StateFinWait2, StateCloseWait,
                       StateClosing, StateLastAck}})

\* C29: CountActiveConnections returns the number of rows, summed over the
\* IPv4 and the IPv6 table, whose local port is monitored and whose state
\* is ESTABLISHED, SYN_SENT, SYN_RECV, FIN_WAIT1, FIN_WAIT2, CLOSE_WAIT,
\* CLOSING or LAST_ACK, and publishes it; LISTEN, TIME_WAIT, CLOSE and an
\* unknown state are not active; when either table cannot be read it
\* returns an error and leaves the published count alone.
C29_CountsActiveOnMonitoredPorts ==
  /\ [](\A st \in {StateListen, StateTimeWait, StateClose, 12} : ~isActiveState(st))
  /\ [][countResult' # countResult =>
          IF procNet.tcp.readable /\ procNet.tcp6.readable
            THEN /\ countResult' = [count |-> Counted(procNet.tcp) + Counted(procNet.tcp6),
                                    err |-> "nil"]
                 /\ activeConnections' = countResult'.count
            ELSE /\ countResult'.err \notin {"nil", "none"}
                 /\ countResult'.count = 0
                 /\ activeConnections' = activeConnections]_vars

\* one active row in each table was counted, then the IPv6 table could not
\* be read: the call failed and the gauge still shows 2
C29_Witness ==
  /\ countResult.err = "cannot read" /\ activeConnections = 2
  /\ Len(procNet.tcp.rows) = 1 /\ Len(procNet.tcp6.rows) = 1
  /\ procNet.tcp.readable /\ ~procNet.tcp6.readable

\* C30: in every execution of Manager.Run, once the signal loop exists the
\* child has been spawned and both the signal handler and the coordinator
\* hold its handle: nothing is dispatched, forwarded or sent to the child by
\* the coordinator with a missing handle.
C30_HandleBeforeDispatch ==
  /\ ((sigPc # "idle" \/ Sum(handleCalls) > 0 \/ Sum(forwardsOk) > 0) =>
        /\ childState # "none"
        /\ sigHandler.appProcess = "child"
        /\ appProcess = "child")
  /\ ((coPc # "idle" \/ coSignal # "none") =>
        childState # "none" /\ appProcess = "child")

\* a pass-through signal was forwarded and the coordinator has signalled
\* the child
C30_Witness ==
  /\ forwarded["SIGHUP"] = 1 /\ coSignal = "SIGTERM" /\ coPc = "select"
  /\ sigHandler.appProcess = "child" /\ childState = "running"

\* C31: the exit code is 0 when the coordinator returned nil and is not 0
\* when it returned an error; it is 1 after a configuration failure, a
\* missing command or a failed spawn, and in these three cases the
\* coordinator was never invoked.
C31_ExitCode ==
  /\ (exitCode # -1 /\ coInvocations > 0 =>
        /\ coPc = "done"
        /\ exitCode = IF coResult = "nil" THEN 0 ELSE 1)
  /\ (exitCode # -1 /\ (\/ config.loadErr
                            \/ config.commandEmpty
                            \/ runResult = "failed to start application") =>
        exitCode = 1 /\ coInvocations = 0 /\ coPc = "idle")
  /\ (exitCode = 0 => coInvocations > 0 /\ coResult = "nil")

\* the coordinator gave up on the child and the process exited with 1
C31_Witness ==
  exitCode = 1 /\ coPc = "done" /\ coResult \notin {"nil", "none"} /\ runPc = "returned"

\* the names that are in both lists of the configuration
Conflicts(c) == Range(c.passThrough) \cap Range(c.shutdown)

\* C32: Validate returns an error whenever a name is in both the
\* pass-through and the shutdown list, so such a run exits with 1 before a
\* handler exists; validateSignalConflicts accepts exactly the pairs of
\* lists that do not intersect; the handler of a run never has a signal in
\* both of its maps, and no signal it handles is in both.
C32_NoSignalInBothLists ==
  /\ [](Conflicts(config) # {} => Validate(config) # "nil")
  /\ []((validateSignalConflicts(config) = "nil") <=> (Conflicts(config) = {}))
  /\ [](Conflicts(config) # {} /\ runPc # "main" =>
          runPc = "exited" /\ exitCode = 1 /\ sigHandler = NoSignalHandler)
  /\ [](sigHandler.passThroughSignals \cap sigHandler.shutdownSignals = {})
  /\ [][\A sig \in SigNames : handleCalls'[sig] # handleCalls[sig] =>
          ~(sig \in sigHandler.passThroughSignals /\ sig \in sigHandler.shutdownSignals)]_vars

\* a run whose lists both name SIGTERM was turned away
C32_Witness ==
  /\ Conflicts(config) = {"SIGTERM"} /\ runPc = "exited" /\ exitCode = 1

\* C33: the drain-phase-active gauge is 1 while WaitForZeroConnections runs,
\* in the polling loop, in the steady-state wait and after a re-entry from
\* it, and 0 once it has returned, whatever it returned; the drain duration
\* published last is the time since the outermost entry.
C33_DrainGauges ==
  /\ (wzPc \in {"poll", "steady"} => drainPhaseActive = 1 /\ wzStart # <<>>)
  /\ (wzPc = "done" =>
        /\ drainPhaseActive = 0
        /\ drainDuration = wzNow - (wzDeadline0 - wzTimeout))

\* a wait that re-entered itself has returned, some time after its entry
C33_Witness ==
  /\ wzPc = "done" /\ wzDepth > 1 /\ drainDuration = wzNow /\ wzNow > 1
  /\ drainPhaseActive = 0

C35_GaugeFollowsState ==
  /\ [](stateGauge = current)
  /\ [][lastSet' = "blocked" /\ (lastSet # "blocked" \/ current \in {StateDraining, StateTerminating})
          => current' = current /\ stateGauge' = stateGauge]_vars
  /\ [][current = StateTerminating \/ (current = StateDraining /\ current' # StateTerminating)
          => current' = current /\ stateGauge' = stateGauge]_vars

\* Sets were turned away in Terminating after the coordinator's call had
\* returned, and the gauge still shows Terminating
C35_Witness ==
  /\ lastSet = "blocked" /\ current = StateTerminating
  /\ stateGauge = StateTerminating /\ coPc = "done"

\* C36: the health handler never writes 200 "healthy" at a moment when the
\* committed state is Draining or Terminating, whatever the interleaving of
\* a handler in flight with the coordinator's Set(Draining).
C36_NoHealthyWhileDraining ==
  [][\A h \in Handlers :
       (hPc[h] = "sampled" /\ hPc'[h] = "done" /\ hResp'[h] = Resp(200, "healthy"))
         => current \notin {StateDraining, StateTerminating}]_vars

\* C37 as stated: every call of WaitForZeroConnections returns, whatever
\* the samples are, and no later than one polling interval after the
\* deadline computed at the original entry.
C37_ReturnsWithinOneInterval ==
  /\ (wzPc \in {"poll", "steady"}) ~> (wzPc = "done")
  /\ [](wzPc # "idle" => wzNow <= wzDeadline0 + monitor.interval)

\* C37, amended: every call returns, whatever the samples are, and no later
\* than one polling interval plus one steady-state check interval after the
\* deadline computed at the original entry.
C37_AlwaysReturns ==
  /\ (wzPc \in {"poll", "steady"}) ~> (wzPc = "done")
  /\ [](wzPc # "idle" =>
          wzNow <= wzDeadline0 + monitor.interval + SteadyStateCheckInterval)

\* the wait re-entered itself twice and returned after its deadline
C37_Witness ==
  /\ wzPc = "done" /\ wzDepth >= 3 /\ After(wzNow, wzDeadline0)
  /\ wzResult = "ErrDrainTimeout"

\* C38: WaitForZeroConnections returns ok only if its last sample was zero
\* and, with a positive steady-state duration, every sample since the zero
\* that opened the final steady-state window was zero and that window
\* lasted at least the steady-state duration.
C38_OkOnlyAfterQuietWindow ==
  (wzPc = "done" /\ wzResult = "nil") =>
    /\ wzSamples[Len(wzSamples)].err = "nil"
    /\ wzSamples[Len(wzSamples)].count = 0
    /\ (monitor.steadyStateWait > 0 =>
          /\ LastBusy < Len(wzSamples)
          /\ ZeroFrom(LastBusy + 1)
          /\ wzNow - wzSamples[LastBusy + 1].at >= monitor.steadyStateWait)

\* ok after connections were seen at entry, without a re-entry, and a
\* steady-state window of three samples
C38_Witness ==
  /\ wzPc = "done" /\ wzResult = "nil" /\ monitor.steadyStateWait > 0
  /\ wzDepth = 1 /\ LastBusy >= 1 /\ Len(wzSamples) >= LastBusy + 3

\* C39: WaitForZeroConnections never returns the drain-timeout error before
\* the deadline computed at entry has passed; the polling loop looks at the
\* sample before the deadline, so with the steady-state wait disabled a zero
\* sample ends the wait with ok even when it is taken after the deadline.
C39_TimeoutOnlyAfterDeadline ==
  /\ (wzPc = "done" /\ wzResult = "ErrDrainTimeout" => After(wzNow, wzDeadline0))
  /\ (wzPc # "idle" /\ monitor.steadyStateWait = 0
        /\ wzSamples[Len(wzSamples)].err = "nil"
        /\ wzSamples[Len(wzSamples)].count = 0
      => wzPc = "done" /\ wzResult = "nil")

\* a zero sample taken after the deadline gave ok
C39_Witness ==
  /\ wzPc = "done" /\ wzResult = "nil" /\ monitor.steadyStateWait = 0
  /\ Len(wzSamples) >= 2 /\ After(wzSamples[Len(wzSamples)].at, wzDeadline0)

\* C40: once the drain wait has returned, InitiateShutdown returns whatever
\* the child does, no later than the shutdown timeout after the child wait
\* began, and the goroutine that waits for the child hands its result over
\* as soon as Wait has returned, also when the call has already returned.
C40_AlwaysReturns ==
  /\ (coPc \in {"publish", "drain", "signal", "select"}) ~> (coPc = "done")
  /\ [](coPc = "select" => shutElapsed <= ShutdownTimeout)
  /\ Waitable ~> (waitPc = "sent")

\* the call gave up on a child that ignored the signal; the child exited
\* later and the waiting goroutine left its result in the channel
C40_Witness ==
  /\ coPc = "done" /\ coResult = "ErrShutdownTimeout" /\ runPc = "direct"
  /\ waitPc = "sent" /\ Len(done) = 1 /\ reapedBy = "coordinator"

====
